---- MODULE Spec2Model ----
(***************************************************************************)
(* khal's SQLite event cache (khal/khalendar/backend.py) and the           *)
(* recurrence expansion it relies on (khal/khalendar/aux.py).              *)
(*                                                                         *)
(* Time is counted in hours.  A date is a day number, day 0 being          *)
(* 2014-04-01; a datetime is a wall-clock hour count from 2014-04-01T00:00 *)
(* in its own zone, and a zone is its UTC offset in hours.  Unix time is   *)
(* counted in hours from 2014-04-01T00:00Z.                                *)
(***************************************************************************)
EXTENDS Integers, Sequences, FiniteSets, Bags, TLC

\* ------------------------------------------------------------------ bounds
MaxOps == 3          \* API calls made on the store in one run
MaxUpdates == 2      \* update calls among them
MaxFailures == 1     \* statements that fail in one run

\* --------------------------------------------------------------- constants
DAY == 24            \* timedelta(days=1), in hours
HORIZON_DAYS_Twice == 2 * 15 * 365
HORIZON_DAYS == 5475 \* 15 * 365 days
DB_VERSION == 3      \* the current db layout version

UTC == 0
Berlin == 2          \* default_tz of the tests (Europe/Berlin, CEST)

\* ----------------------------------------------------------- Python values
\* An optional property is <<>> when absent and <<value>> when present.
Absent == <<>>
Some(x) == <<x>>
Has(o) == o # <<>>
Val(o) == o[1]

\* hrefs are character sequences; NoneHref is Python's None.
NoneHref == <<"None">>

Date(day) == [kind |-> "date", t |-> day, tz |-> 0]
Naive(h) == [kind |-> "naive", t |-> h, tz |-> 0]
Aware(h, zone) == [kind |-> "aware", t |-> h, tz |-> zone]

\* isinstance(x, datetime.datetime)
IsDatetime(x) == x.kind # "date"

DigitChar == <<"0", "1", "2", "3", "4", "5", "6", "7", "8", "9">>

RECURSIVE Digits(_)
Digits(n) ==
    IF n < 10 THEN <<DigitChar[n + 1]>>
    ELSE Digits(n \div 10) \o <<DigitChar[(n % 10) + 1]>>

\* str(int)
Str(n) == IF n < 0 THEN <<"-">> \o Digits(0 - n) ELSE Digits(n)

\* date.strftime('%Y%m%d'), for the days of April and May 2014
Strftime(x) ==
    LET day == IF x.kind = "date" THEN x.t ELSE x.t \div DAY
    IN  IF day < 30 THEN 20140401 + day ELSE 20140501 + (day - 30)

\* aux.to_unix_time
to_unix_time(x) ==
    IF x.kind = "aware" THEN x.t - x.tz
    ELSE IF x.kind = "naive" THEN x.t
    ELSE x.t * DAY

Localize_Not(x, zone) == x

\* tz.localize(naive datetime)
Localize(x, zone) == Aware(x.t, zone)

\* aware.astimezone(zone)
AsTimezone(x, zone) == Aware((x.t - x.tz) + zone, zone)

\* x + timedelta (a date takes the whole days of the timedelta only)
DtAdd(x, dur) ==
    IF x.kind = "date" THEN [x EXCEPT !.t = x.t + (dur \div DAY)]
    ELSE [x EXCEPT !.t = x.t + dur]

\* a - b, a timedelta in hours; <<>> stands for Python's TypeError
DtSub(a, b) ==
    IF a.kind = "date" /\ b.kind = "date" THEN Some((a.t - b.t) * DAY)
    ELSE IF a.kind = "aware" /\ b.kind = "aware"
        THEN Some((a.t - a.tz) - (b.t - b.tz))
    ELSE IF a.kind = "naive" /\ b.kind = "naive" THEN Some(a.t - b.t)
    ELSE Absent

\* ------------------------------------------------------------ aux.sanitize
\* A component is a record
\*   [name, DTSTART, TZID, DTEND, DURATION, RRULE, RDATE, EXDATE, RECURRENCE_ID]
\* where TZID is the TZID parameter of DTSTART, and a recurrence rule is
\*   [FREQ, INTERVAL, COUNT, UNTIL].
sanitize_Not(vevent) == vevent

sanitize(vevent) ==
    IF ~Has(vevent.DTEND) /\ ~Has(vevent.DURATION)
    THEN LET start == IF IsDatetime(vevent.DTSTART)
                      THEN Date(vevent.DTSTART.t \div DAY)
                      ELSE vevent.DTSTART
         IN  [vevent EXCEPT !.DTSTART = start,
                            !.DTEND = Some(DtAdd(start, DAY))]
    ELSE vevent

\* -------------------------------------------------------------- aux.expand
\* aux.localize_strip_tz; with no timezone, astimezone(None) is a TypeError
localize_strip_tz(dates, timezone) ==
    [i \in 1..Len(dates) |->
        IF dates[i].kind = "aware" /\ Has(timezone)
        THEN Naive(AsTimezone(dates[i], Val(timezone)).t)
        ELSE dates[i]]

StripFails(dates, timezone) ==
    ~Has(timezone) /\ \E i \in 1..Len(dates) : dates[i].kind = "aware"

FreqHours(freq) == IF freq = "WEEKLY" THEN 7 * DAY ELSE DAY

RruleList_Once(s, step, count, until, k) == <<Naive(s)>>

\* list(rrule): the instants dtstart + k * step, cut by COUNT and by UNTIL
RECURSIVE RruleList(_, _, _, _, _)
RruleList(s, step, count, until, k) ==
    IF (Has(count) /\ k >= Val(count)) \/ (Has(until) /\ s + k * step > Val(until))
    THEN <<>>
    ELSE <<Naive(s + k * step)>> \o RruleList(s, step, count, until, k + 1)

RECURSIVE SortedSeq_Reversed(_)
SortedSeq_Reversed(S) ==
    IF S = {} THEN <<>>
    ELSE LET hi == CHOOSE x \in S : \A y \in S : to_unix_time(x) >= to_unix_time(y)
         IN  <<hi>> \o SortedSeq_Reversed(S \ {hi})

\* list(set(l)); l.sort()
RECURSIVE SortedSeq(_)
SortedSeq(S) ==
    IF S = {} THEN <<>>
    ELSE LET lo == CHOOSE x \in S : \A y \in S : to_unix_time(x) <= to_unix_time(y)
         IN  <<lo>> \o SortedSeq(S \ {lo})

SeqRange(l) == {l[i] : i \in 1..Len(l)}

Filter(l, keep(_)) == SelectSeq(l, keep)

Raise(what, vevent) == [err |-> what, dtstartend |-> <<>>, vevent |-> vevent]
Return(l, vevent) == [err |-> "", dtstartend |-> l, vevent |-> vevent]

\* The second part of expand (lines 84-116): RDATE, EXDATE, the timezone put
\* back, duplicates dropped, the list sorted and the ends added.
ExpandTail(v, dtstartl0, events_tz, allday, duration) ==
    LET rdates == IF Has(v.RDATE) THEN Val(v.RDATE) ELSE <<>>
        exdates == IF Has(v.EXDATE) THEN Val(v.EXDATE) ELSE <<>>
        withR == dtstartl0 \o localize_strip_tz(rdates, events_tz)
        ex == SeqRange(localize_strip_tz(exdates, events_tz))
        NotExcluded(x) == x \notin ex
        kept == Filter(withR, NotExcluded)
        badLocal == Has(events_tz) /\ \E i \in 1..Len(kept) : kept[i].kind # "naive"
        badDate == ~Has(events_tz) /\ allday
                   /\ \E i \in 1..Len(kept) : kept[i].kind = "date"
        back == [i \in 1..Len(kept) |->
                    IF Has(events_tz) THEN Localize(kept[i], Val(events_tz))
                    ELSE IF allday THEN Date(kept[i].t \div DAY)
                    ELSE kept[i]]
        mixed == \E i, j \in 1..Len(back) : back[i].kind # back[j].kind
        sorted == SortedSeq(SeqRange(back))
    IN  IF StripFails(rdates, events_tz) \/ StripFails(exdates, events_tz)
        THEN Raise("TypeError", v)
        ELSE IF badLocal THEN Raise("TypeError", v)
        ELSE IF badDate THEN Raise("AttributeError", v)
        ELSE IF mixed THEN Raise("TypeError", v)
        ELSE Return([i \in 1..Len(sorted) |-> <<sorted[i], DtAdd(sorted[i], duration)>>], v)

\* The recurrence rule evaluated (lines 60-82).  <<>> stands for a TypeError.
ExpandRule(v, events_tz) ==
    IF ~Has(v.RRULE) THEN Some(<<v.DTSTART>>)
    ELSE LET rule == Val(v.RRULE)
             s == IF v.DTSTART.kind = "date" THEN v.DTSTART.t * DAY ELSE v.DTSTART.t
             given == IF Has(rule.UNTIL)
                      THEN LET u == Val(rule.UNTIL)
                           IN  Some(IF u.kind = "date" THEN Naive(u.t * DAY) ELSE u)
                      ELSE Absent
             until == IF ~Has(rule.UNTIL) /\ ~Has(rule.COUNT)
                      THEN Some(Naive(s + HORIZON_DAYS * DAY))
                      ELSE given
             fails == Has(until) /\ Val(until).kind = "aware" /\ ~Has(events_tz)
             untilH == IF ~Has(until) THEN Absent
                       ELSE IF Val(until).kind = "aware" /\ Has(events_tz)
                           THEN Some(AsTimezone(Val(until), Val(events_tz)).t)
                       ELSE Some(Val(until).t)
         IN  IF fails THEN Absent
             ELSE Some(RruleList(s, rule.INTERVAL * FreqHours(rule.FREQ),
                                 rule.COUNT, untilH, 0))

expand(vevent, default_tz) ==
    LET duration == IF Has(vevent.DURATION) THEN vevent.DURATION
                    ELSE IF Has(vevent.DTEND)
                        THEN DtSub(Val(vevent.DTEND), vevent.DTSTART)
                    ELSE Absent
        allday == ~IsDatetime(vevent.DTSTART)
        v1 == IF ~allday /\ Has(vevent.TZID) /\ vevent.DTSTART.kind = "naive"
              THEN [vevent EXCEPT !.DTSTART = Localize(vevent.DTSTART, default_tz)]
              ELSE vevent
        events_tz == IF v1.DTSTART.kind = "aware" THEN Some(v1.DTSTART.tz) ELSE Absent
        v2 == IF Has(events_tz)
              THEN [v1 EXCEPT !.DTSTART = Naive(v1.DTSTART.t)]
              ELSE v1
        dtstartl == ExpandRule(v2, events_tz)
    IN  IF ~Has(duration) THEN Raise("TypeError", vevent)
        ELSE IF ~Has(vevent.RRULE) /\ ~Has(vevent.RDATE)
            THEN Return(<<<<v1.DTSTART, DtAdd(v1.DTSTART, Val(duration))>>>>, v1)
        ELSE IF ~Has(dtstartl) THEN Raise("TypeError", v2)
        ELSE IF Len(Val(dtstartl)) = 0 THEN Raise("UnsupportedRecursion", v2)
        ELSE ExpandTail(v2, Val(dtstartl), events_tz, allday, Val(duration))

\* ------------------------------------------------------- the input records
Event(start, end) ==
    [name |-> "VEVENT", DTSTART |-> start, TZID |-> Absent, DTEND |-> Some(end),
     DURATION |-> Absent, RRULE |-> Absent, RDATE |-> Absent, EXDATE |-> Absent,
     RECURRENCE_ID |-> Absent]

Daily(count, until) ==
    [FREQ |-> "DAILY", INTERVAL |-> 1, COUNT |-> count, UNTIL |-> until]

\* event_dt of the tests: one hour on the morning of 2014-04-09,
\* Europe/Berlin (09:30-10:30, counted here from the full hour)
event_dt ==
    [Event(Aware(201, Berlin), Aware(202, Berlin)) EXCEPT !.TZID = Some("Europe/Berlin")]
\* the same event moved to 11:00
event_dt_moved ==
    [Event(Aware(203, Berlin), Aware(204, Berlin)) EXCEPT !.TZID = Some("Europe/Berlin")]
\* event_dt repeated daily, twice
event_dt_rrule == [event_dt EXCEPT !.RRULE = Some(Daily(Some(2), Absent))]
\* the second instance of event_dt_rrule, moved to 14:00
event_dt_override ==
    [Event(Aware(230, Berlin), Aware(231, Berlin)) EXCEPT
        !.TZID = Some("Europe/Berlin"),
        !.RECURRENCE_ID = Some(Aware(225, Berlin))]
\* event_today of the tests: one whole day, DTEND the day after DTSTART
event_d == Event(Date(8), Date(9))
\* an all-day event repeated daily, twice
event_d_rrule == [event_d EXCEPT !.RRULE = Some(Daily(Some(2), Absent))]
\* a rule that ends before it starts: no instant at all
event_norecur ==
    [event_dt EXCEPT !.RRULE = Some(Daily(Absent, Some(Aware(100, UTC))))]
\* the same as an override of a series
event_norecur_override ==
    [event_norecur EXCEPT !.RECURRENCE_ID = Some(Aware(225, Berlin))]
\* a series whose start is given in UTC (DTSTART:...Z), repeated daily, twice
event_utc_rrule ==
    [Event(Aware(199, UTC), Aware(200, UTC)) EXCEPT !.RRULE = Some(Daily(Some(2), Absent))]
\* an all-day event whose DTEND is its DTSTART: no length at all
event_d_zero == Event(Date(8), Date(8))
\* a component that is no event
todo == [event_dt EXCEPT !.name = "VTODO"]

RecordNames ==
    {"dt", "moved", "rrule", "d", "d_rrule", "norecur", "series", "badseries", "todo",
     "utc_rrule", "d_zero"}

\* icalendar.Event.from_ical(vevent): the components of the record
from_ical(rec) ==
    CASE rec = "dt" -> <<event_dt>>
      [] rec = "moved" -> <<event_dt_moved>>
      [] rec = "rrule" -> <<event_dt_rrule>>
      [] rec = "d" -> <<event_d>>
      [] rec = "d_rrule" -> <<event_d_rrule>>
      [] rec = "norecur" -> <<event_norecur>>
      [] rec = "series" -> <<event_dt_rrule, event_dt_override>>
      [] rec = "badseries" -> <<event_dt_rrule, event_norecur_override>>
      [] rec = "todo" -> <<todo>>
      [] rec = "utc_rrule" -> <<event_utc_rrule>>
      [] rec = "d_zero" -> <<event_d_zero>>

\* The second href is the first followed by the unix time of the override.
Hrefs == {<<>>, <<"a">>, <<"a">> \o Str(to_unix_time(Aware(225, Berlin)))}
Etags == {"e1", "e2"}
Recuids == Hrefs \cup {h \o Str(to_unix_time(Aware(225, Berlin))) : h \in Hrefs}

\* the bounds of get_time_range: astart and aend, bstart and bend of the
\* tests (2014-04-09 and 2014-04-10, to the last full hour of the day), and
\* the hour 07:00-08:00 of 2014-04-09
TimeWindows ==
    {<<Naive(192), Naive(215)>>, <<Naive(216), Naive(239)>>, <<Naive(199), Naive(200)>>}
\* the bounds of get_allday_range: yesterday, today and tomorrow of the
\* tests, today being 2014-04-09, with no end or with the end 2014-04-11
AlldayStarts == {Date(7), Date(8), Date(9)}
AlldayEnds == {Absent, Some(Date(10))}
\* the zones the process may run in
MachineZones == {UTC, Berlin}

default_tz == Berlin
calendar == "foobar"

\* ------------------------------------------------------------- the storage
VARIABLES
    db,         \* the tables as this connection sees them: [m, dt, d]
    disk,       \* the tables as committed
    accounts,   \* the accounts table
    pc,         \* where the call in progress stands
    call,       \* the call in progress: [op, href, rec, etag, start, end, tz]
    events,     \* update: the components not yet written
    cur,        \* _update_one: [recuid, all_day_event, dtstartend, vevent]
    k,          \* the index of the loop in progress
    last,       \* the last call that returned, with its outcome
    again,      \* the call in progress repeats the last one, which returned
    pre,        \* db and disk when the last call began
    nops,       \* calls made
    nupdates,   \* update calls made
    nfails,     \* statements that failed
    result,     \* what the last call returned
    schema,     \* the tables the store file holds, by name
    version     \* the rows of the version table

vars == <<db, disk, accounts, pc, call, events, cur, k, last, again, pre, nops, nupdates,
          nfails, result, schema, version>>

NoCall == [op |-> "none", href |-> <<>>, rec |-> "", etag |-> "", out |-> "",
           start |-> <<>>, end |-> <<>>, tz |-> 0]
NoCur == [recuid |-> <<>>, all_day_event |-> FALSE, dtstartend |-> <<>>,
          vevent |-> <<>>]
EmptyTables == [m |-> {}, dt |-> EmptyBag, d |-> EmptyBag]
\* the tables of a store: version, accounts, and table_m, table_dt and
\* table_d of the calendar
CalendarTables == {"m", "dt", "d"}
AllTables == {"version", "accounts"} \cup CalendarTables
\* a call that returns None, or that raised
NoResult == <<>>

\* vevent.to_ical(): every value as text, the parameters as they were read
ToIcalDt(x, tzid) ==
    [text |-> x.t,
     form |-> IF x.kind = "date" THEN "DATE" ELSE "DATE-TIME",
     z |-> (x.kind = "aware" /\ x.tz = UTC),
     tzid |-> tzid]

OwnTzid(x) == IF x.kind = "aware" /\ x.tz # UTC THEN Some(x.tz) ELSE Absent

ToIcalOpt(o) == IF Has(o) THEN Some(ToIcalDt(Val(o), OwnTzid(Val(o)))) ELSE Absent

to_ical(v) ==
    [name |-> v.name,
     DTSTART |-> ToIcalDt(v.DTSTART, v.TZID),
     DTEND |-> ToIcalOpt(v.DTEND),
     DURATION |-> v.DURATION,
     RRULE |-> IF Has(v.RRULE)
               THEN Some([Val(v.RRULE) EXCEPT !.UNTIL = ToIcalOpt(Val(v.RRULE).UNTIL)])
               ELSE Absent,
     RDATE |-> IF Has(v.RDATE)
               THEN Some([i \in 1..Len(Val(v.RDATE)) |->
                            ToIcalDt(Val(v.RDATE)[i], OwnTzid(Val(v.RDATE)[i]))])
               ELSE Absent,
     EXDATE |-> IF Has(v.EXDATE)
                THEN Some([i \in 1..Len(Val(v.EXDATE)) |->
                            ToIcalDt(Val(v.EXDATE)[i], OwnTzid(Val(v.EXDATE)[i]))])
                ELSE Absent,
     RECURRENCE_ID |-> ToIcalOpt(v.RECURRENCE_ID)]

\* a walk that keeps every component, whatever its name
IsVevent_AnyName(component) == TRUE

\* ical.walk(), keeping the components named VEVENT
IsVevent(component) == component.name = "VEVENT"
Walk(rec) == SelectSeq(from_ical(rec), IsVevent)

\* SQL: a = b is never true of NULL
SqlEq(a, b) == a # NoneHref /\ b # NoneHref /\ a = b

\* DELETE FROM table WHERE recuid == ?
MatchesRecuid(row, recuid) == SqlEq(row.recuid, recuid)
\* DELETE FROM table WHERE href LIKE ? || '%'
MatchesHref_Like(row, href) ==
    /\ row.href # NoneHref
    /\ href # NoneHref
    /\ Len(row.href) >= Len(href)
    /\ SubSeq(row.href, 1, Len(href)) = href

\* DELETE FROM table WHERE href = ?
MatchesHref(row, href) == SqlEq(row.href, href)

BagWithout(bag, gone(_)) == [row \in {r \in DOMAIN bag : ~gone(r)} |-> bag[row]]

DeleteRecuid(tables, table, recuid) ==
    LET Gone(row) == MatchesRecuid(row, recuid)
    IN  CASE table = "m" -> [tables EXCEPT !.m = {row \in tables.m : ~Gone(row)}]
          [] table = "dt" -> [tables EXCEPT !.dt = BagWithout(tables.dt, Gone)]
          [] table = "d" -> [tables EXCEPT !.d = BagWithout(tables.d, Gone)]

DeleteHref(tables, table, href) ==
    LET Gone(row) == MatchesHref(row, href)
    IN  CASE table = "m" -> [tables EXCEPT !.m = {row \in tables.m : ~Gone(row)}]
          [] table = "dt" -> [tables EXCEPT !.dt = BagWithout(tables.dt, Gone)]
          [] table = "d" -> [tables EXCEPT !.d = BagWithout(tables.d, Gone)]

\* COALESCE((SELECT recuid FROM table WHERE recuid = ?), ?)
Coalesce(rows, recuid) ==
    IF \E row \in rows : SqlEq(row.recuid, recuid)
    THEN (CHOOSE row \in rows : SqlEq(row.recuid, recuid)).recuid
    ELSE recuid

\* INSERT OR REPLACE into an index table: no column of it is unique
InsertIndex(tables, table, dbstart, dbend, href, recuid) ==
    IF table = "d"
    THEN [tables EXCEPT !.d = @ (+) SetToBag({[dtstart |-> dbstart, dtend |-> dbend,
            href |-> href, recuid |-> Coalesce(DOMAIN tables.d, recuid)]})]
    ELSE [tables EXCEPT !.dt = @ (+) SetToBag({[dtstart |-> dbstart, dtend |-> dbend,
            href |-> href, recuid |-> Coalesce(DOMAIN tables.dt, recuid)]})]

\* INSERT OR REPLACE into the master table: recuid is UNIQUE
InsertMaster(tables, vevent, etag, href, recuid) ==
    LET new == [vevent |-> vevent, etag |-> etag, href |-> href,
                recuid |-> Coalesce(tables.m, recuid)]
    IN  [tables EXCEPT !.m = {row \in @ : row.recuid # new.recuid} \cup {new}]

\* the tables _update_one clears of the recuid before it writes
UpdateDeleteTables == <<"d", "m">>
\* the tables delete clears of the href
DeleteTables == <<"m", "dt", "d">>

\* ------------------------------------------------------------- the actions
Init ==
    /\ db = EmptyTables
    /\ disk = EmptyTables
    /\ accounts = {[account |-> calendar, resource |-> ""]}
    /\ pc = "idle"
    /\ call = NoCall
    /\ events = <<>>
    /\ cur = NoCur
    /\ k = 0
    /\ last = NoCall
    /\ again = FALSE
    /\ pre = [db |-> EmptyTables, disk |-> EmptyTables,
              accounts |-> {[account |-> calendar, resource |-> ""]},
              schema |-> AllTables, version |-> <<DB_VERSION>>]
    /\ nops = 0
    /\ nupdates = 0
    /\ nfails = 0
    /\ result = NoResult
    /\ schema = AllTables
    /\ version = <<DB_VERSION>>

Snapshot ==
    [db |-> db, disk |-> disk, accounts |-> accounts, schema |-> schema,
     version |-> version]

Call(op, href, rec, etag) ==
    [op |-> op, href |-> href, rec |-> rec, etag |-> etag, out |-> "",
     start |-> Absent, end |-> Absent, tz |-> UTC]

\* a range query: its bounds, and the zone the process runs in
Query(op, start, end, tz) ==
    [Call(op, <<>>, "", "") EXCEPT !.start = start, !.end = end, !.tz = tz]

\* a call begins
Begins(op, href, rec, etag) ==
    /\ pc = "idle"
    /\ nops < MaxOps
    /\ nops' = nops + 1
    /\ UNCHANGED <<nfails, schema, version>>
    /\ again' = (last = [Call(op, href, rec, etag) EXCEPT !.out = "ok"])
    /\ pre' = Snapshot

\* a call returns `value`, or raises `out`
ReturnsValue(c, out, value) ==
    /\ pc' = "idle"
    /\ last' = [c EXCEPT !.out = out]
    /\ call' = NoCall
    /\ events' = <<>>
    /\ cur' = NoCur
    /\ k' = 0
    /\ result' = value

\* a call returns None, or raises `out`
Returns(c, out) == ReturnsValue(c, out, NoResult)

\* an update that refuses no href
HrefRefused_Never(href) == FALSE

\* update, line 239: if href is None
HrefRefused(href) == href = NoneHref

\* update, lines 239-250: the href and the record are looked at
Update(vevent, href, etag) ==
    /\ Begins("update", href, vevent, etag)
    /\ nupdates < MaxUpdates
    /\ nupdates' = nupdates + 1
    /\ UNCHANGED <<db, disk, accounts>>
    /\ IF HrefRefused(href)
       THEN Returns(Call("update", href, vevent, etag), "ValueError")
       ELSE IF Len(Walk(vevent)) = 0
       THEN Returns(Call("update", href, vevent, etag), "UpdateFailed")
       ELSE /\ pc' = "update_one"
            /\ call' = Call("update", href, vevent, etag)
            /\ events' = Walk(vevent)
            /\ result' = NoResult
            /\ UNCHANGED <<cur, k, last>>

\* _update_one, lines 256-268: the component is sanitized and expanded
UpdateOne ==
    /\ pc = "update_one"
    /\ LET vevent == sanitize(Head(events))
           recuid == IF Has(vevent.RECURRENCE_ID)
                     THEN call.href \o Str(to_unix_time(Val(vevent.RECURRENCE_ID)))
                     ELSE call.href
           all_day_event == ~IsDatetime(vevent.DTSTART)
           got == expand(vevent, default_tz)
       IN  IF got.err # ""
           THEN Returns(call, got.err)
           ELSE /\ cur' = [recuid |-> recuid, all_day_event |-> all_day_event,
                           dtstartend |-> got.dtstartend, vevent |-> got.vevent]
                /\ pc' = "upd_delete"
                /\ k' = 1
                /\ UNCHANGED <<events, last, call, result>>
    /\ UNCHANGED <<db, disk, accounts, again, pre, nops, nupdates, nfails, schema, version>>

\* _update_one, lines 270-272: one DELETE of the loop, not committed
UpdateDelete ==
    /\ pc = "upd_delete"
    /\ db' = DeleteRecuid(db, UpdateDeleteTables[k], cur.recuid)
    /\ IF k < Len(UpdateDeleteTables)
       THEN /\ k' = k + 1
            /\ pc' = pc
       ELSE /\ k' = 1
            /\ pc' = "upd_insert"
    /\ UNCHANGED <<disk, accounts, call, events, cur, last, again, pre, nops, nupdates,
                   nfails, result, schema, version>>

\* lines 282-285: a naive time is taken to be in the default timezone
InDefaultTz(x) == IF x.kind = "naive" THEN Localize(x, default_tz) ELSE x

\* lines 275-290: the table an occurrence goes to, and its two columns
IndexTable(all_day_event) == IF all_day_event THEN "d" ELSE "dt"
DbTime(all_day_event, x) ==
    IF all_day_event THEN Strftime(x) ELSE to_unix_time(InDefaultTz(x))

\* _update_one, lines 274-297: one occurrence is written, not committed
UpdateInsert ==
    /\ pc = "upd_insert"
    /\ db' = InsertIndex(db, IndexTable(cur.all_day_event),
                         DbTime(cur.all_day_event, cur.dtstartend[k][1]),
                         DbTime(cur.all_day_event, cur.dtstartend[k][2]),
                         call.href, cur.recuid)
    /\ IF k < Len(cur.dtstartend)
       THEN /\ k' = k + 1
            /\ pc' = pc
       ELSE /\ k' = 0
            /\ pc' = "upd_master"
    /\ UNCHANGED <<disk, accounts, call, events, cur, last, again, pre, nops, nupdates,
                   nfails, result, schema, version>>

\* _update_one, lines 299-309: the master row is written and all of it is
\* committed; update, line 252: the next component, if any
UpdateMaster ==
    /\ pc = "upd_master"
    /\ db' = InsertMaster(db, to_ical(cur.vevent), call.etag, call.href, cur.recuid)
    /\ disk' = db'
    /\ IF Len(events) > 1
       THEN /\ events' = Tail(events)
            /\ pc' = "update_one"
            /\ cur' = NoCur
            /\ UNCHANGED <<k, last, call, result>>
       ELSE Returns(call, "ok")
    /\ UNCHANGED <<accounts, again, pre, nops, nupdates, nfails, schema, version>>

\* delete, line 348
Delete(href) ==
    /\ Begins("delete", href, "", "")
    /\ UNCHANGED nupdates
    /\ pc' = "delete"
    /\ call' = Call("delete", href, "", "")
    /\ k' = 1
    /\ result' = NoResult
    /\ UNCHANGED <<db, disk, accounts, events, cur, last>>

\* delete, lines 349-350: one DELETE of the loop, committed by sql_ex
DeleteStatement ==
    /\ pc = "delete"
    /\ db' = DeleteHref(db, DeleteTables[k], call.href)
    /\ disk' = db'
    /\ IF k < Len(DeleteTables)
       THEN /\ k' = k + 1
            /\ UNCHANGED <<pc, last, call, events, cur, result>>
       ELSE Returns(call, "ok")
    /\ UNCHANGED <<accounts, again, pre, nops, nupdates, nfails, schema, version>>

\* SELECT vevent, etag FROM table_m WHERE href=(?), had get looked there
SelectMaster_ByHref(tables, recuid) == {row \in tables.m : SqlEq(row.href, recuid)}

\* get, lines 410-412: SELECT vevent, etag FROM table_m WHERE recuid=(?)
SelectMaster(tables, recuid) == {row \in tables.m : SqlEq(row.recuid, recuid)}

\* get, lines 413-422: the Event made of the first row found.  start and end
\* are <<>> when not given.
Hydrate(row, recuid, start, end) ==
    [vevent |-> row.vevent, etag |-> row.etag, href |-> recuid,
     start |-> start, end |-> end, calendar |-> calendar]

\* get, lines 410-422: the SELECT, committed by sql_ex; result[0] of no row
\* is an IndexError
Get(recuid) ==
    /\ Begins("get", recuid, "", "")
    /\ UNCHANGED nupdates
    /\ disk' = db
    /\ IF SelectMaster(db, recuid) # {}
       THEN ReturnsValue(Call("get", recuid, "", ""), "ok",
                Hydrate(CHOOSE row \in SelectMaster(db, recuid) : TRUE,
                        recuid, Absent, Absent))
       ELSE Returns(Call("get", recuid, "", ""), "IndexError")
    /\ UNCHANGED <<db, accounts>>

\* time.mktime(x.timetuple()): the fields of x read as local time of the
\* process, whatever the tzinfo of x
Mktime(x, localtime) == (IF x.kind = "date" THEN x.t * DAY ELSE x.t) - localtime

\* the WHERE clause of get_time_range, lines 367-371
InTimeRange(row, start, end) ==
    \/ row.dtstart >= start /\ row.dtstart <= end
    \/ row.dtend >= start /\ row.dtend <= end
    \/ row.dtstart <= start /\ row.dtend >= end

\* the rows of an index table a WHERE clause selects, each as often as stored
SelectRows(bag, Where(_)) == [row \in {r \in DOMAIN bag : Where(r)} |-> bag[row]]

RECURSIVE Copies(_, _)
Copies(bag, rows) ==
    IF rows = {} THEN 0
    ELSE LET row == CHOOSE r \in rows : TRUE
         IN  bag[row] + Copies(bag, rows \ {row})

\* lines 373-379 and 395-402: one event per row selected, each made by get
\* with the start and end of its row; the order of the rows is not specified
HydrateRows(tables, rows, Start(_), End(_)) ==
    LET EventOf(row) ==
            Hydrate(CHOOSE m \in SelectMaster(tables, row.recuid) : TRUE,
                    row.recuid, Some(Start(row)), Some(End(row)))
        found == {EventOf(row) : row \in DOMAIN rows}
    IN  [event \in found |->
            Copies(rows, {row \in DOMAIN rows : EventOf(row) = event})]

\* get of a row selected raises IndexError when no master row has its recuid
HydrateFails(tables, rows) ==
    \E row \in DOMAIN rows : SelectMaster(tables, row.recuid) = {}

\* get_time_range, lines 365-380; sql_ex commits after the SELECT
GetTimeRange(start, end, localtime) ==
    /\ Begins("get_time_range", <<>>, "", "")
    /\ UNCHANGED nupdates
    /\ disk' = db
    /\ LET c == Query("get_time_range", Some(start), Some(end), localtime)
           Where(row) == InTimeRange(row, Mktime(start, localtime), Mktime(end, localtime))
           rows == SelectRows(db.dt, Where)
           Start(row) == Aware(row.dtstart, UTC)
           End(row) == Aware(row.dtend, UTC)
       IN  IF HydrateFails(db, rows)
           THEN Returns(c, "IndexError")
           ELSE ReturnsValue(c, "ok", HydrateRows(db, rows, Start, End))
    /\ UNCHANGED <<db, accounts>>

\* time.strptime(str(n), '%Y%m%d') and datetime.date(...), lines 397-400:
\* the day an integer of the all-day index stands for
Strptime(n) == IF n >= 20140501 THEN Date(30 + (n - 20140501)) ELSE Date(n - 20140401)

\* the WHERE clause of get_allday_range, lines 389-393
InAlldayRange(row, strstart, strend) ==
    \/ row.dtstart >= strstart /\ row.dtstart < strend
    \/ row.dtend > strstart /\ row.dtend <= strend
    \/ row.dtstart <= strstart /\ row.dtend > strend

\* get_allday_range, lines 385-403; sql_ex commits after the SELECT
GetAlldayRange(start, end) ==
    /\ Begins("get_allday_range", <<>>, "", "")
    /\ UNCHANGED nupdates
    /\ disk' = db
    /\ LET c == Query("get_allday_range", Some(start), end, UTC)
           strstart == Strftime(start)
           strend == Strftime(IF Has(end) THEN Val(end) ELSE DtAdd(start, DAY))
           Where(row) == InAlldayRange(row, strstart, strend)
           rows == SelectRows(db.d, Where)
           Start(row) == Strptime(row.dtstart)
           End(row) == Strptime(row.dtend)
       IN  IF HydrateFails(db, rows)
           THEN Returns(c, "IndexError")
           ELSE ReturnsValue(c, "ok", HydrateRows(db, rows, Start, End))
    /\ UNCHANGED <<db, accounts>>

\* list, lines 356-357: list(set(SELECT href, etag FROM table_m)), committed
\* by sql_ex
List ==
    /\ Begins("list", <<>>, "", "")
    /\ UNCHANGED nupdates
    /\ disk' = db
    /\ ReturnsValue(Call("list", <<>>, "", ""), "ok",
                    {<<row.href, row.etag>> : row \in db.m})
    /\ UNCHANGED <<db, accounts>>

\* get_etag, lines 333-339: SELECT etag FROM table_m WHERE href=(?), and the
\* etag of the first row; which row comes first is sqlite's choice.  None
\* (<<>>) when there is no row.
GetEtag(href) ==
    /\ Begins("get_etag", href, "", "")
    /\ UNCHANGED nupdates
    /\ disk' = db
    /\ IF \E row \in db.m : MatchesHref(row, href)
       THEN \E row \in {r \in db.m : MatchesHref(r, href)} :
                ReturnsValue(Call("get_etag", href, "", ""), "ok", Some(row.etag))
       ELSE ReturnsValue(Call("get_etag", href, "", ""), "ok", Absent)
    /\ UNCHANGED <<db, accounts>>

\* sql_ex, line 178: the statement about to run fails.  sqlite keeps the
\* transaction open after most errors and rolls it back itself after some
\* (disk full, I/O error); the code never rolls back.
StatementFails(rolled_back) ==
    /\ pc \in {"upd_delete", "upd_insert", "upd_master", "delete"}
    /\ nfails < MaxFailures
    /\ nfails' = nfails + 1
    /\ db' = IF rolled_back THEN disk ELSE db
    /\ Returns(call, "StorageError")
    /\ UNCHANGED <<disk, accounts, again, pre, nops, nupdates, schema, version>>

Next ==
    \/ \E vevent \in RecordNames, href \in Hrefs \cup {NoneHref}, etag \in Etags :
            Update(vevent, href, etag)
    \/ UpdateOne
    \/ UpdateDelete
    \/ UpdateInsert
    \/ UpdateMaster
    \/ \E href \in Hrefs \cup {NoneHref} : Delete(href)
    \/ DeleteStatement
    \/ \E recuid \in Recuids : Get(recuid)
    \/ \E window \in TimeWindows, localtime \in MachineZones :
            GetTimeRange(window[1], window[2], localtime)
    \/ \E start \in AlldayStarts, end \in AlldayEnds : GetAlldayRange(start, end)
    \/ List
    \/ \E href \in Hrefs : GetEtag(href)
    \/ \E rolled_back \in BOOLEAN : StatementFails(rolled_back)

Spec == Init /\ [][Next]_vars

\* ------------------------------------------------------- opening a store
\* SQLiteDb.__init__ on a store file that exists already.  The file may have
\* been written by any version of the layout, or by an open that was cut
\* short: which tables it holds, and what the version table says, are inputs.
VersionRows == {<<>>, <<DB_VERSION - 1>>, <<DB_VERSION>>, <<DB_VERSION + 1>>}
AccountRows ==
    {{}, {[account |-> calendar, resource |-> ""]}, {[account |-> "work", resource |-> ""]}}

\* opens made of one store file after the first
MaxReopens == 2

\* the rows update(event_dt, 'a', 'e1') leaves in the calendar's tables
StoredTables ==
    InsertMaster(InsertIndex(EmptyTables, "dt",
                             DbTime(FALSE, event_dt.DTSTART),
                             DbTime(FALSE, Val(event_dt.DTEND)), <<"a">>, <<"a">>),
                 to_ical(event_dt), "e1", <<"a">>, <<"a">>)

OpenInit ==
    /\ schema \in SUBSET AllTables
    /\ version \in (IF "version" \in schema THEN VersionRows ELSE {<<>>})
    /\ accounts \in (IF "accounts" \in schema THEN AccountRows ELSE {{}})
    /\ db \in (IF CalendarTables \subseteq schema
               THEN {EmptyTables, StoredTables}
               ELSE {EmptyTables})
    /\ disk = db
    /\ pc = "open"
    /\ call = NoCall
    /\ events = <<>>
    /\ cur = NoCur
    /\ k = 0
    /\ last = NoCall
    /\ again = FALSE
    /\ pre = Snapshot
    /\ nops = 0
    /\ nupdates = 0
    /\ nfails = 0
    /\ result = NoResult

\* what opening leaves alone: the rows of the calendar's tables and the
\* bookkeeping of the calls
OpenFrame == UNCHANGED <<db, disk, again, pre, nops, nupdates, nfails>>
OpenContinues == UNCHANGED <<call, events, cur, last, result>>

\* _create_default_tables, lines 153-160: CREATE TABLE IF NOT EXISTS version
CreateVersionTable ==
    /\ pc = "open"
    /\ schema' = schema \cup {"version"}
    /\ pc' = "create_accounts"
    /\ OpenFrame
    /\ OpenContinues
    /\ UNCHANGED <<version, accounts, k>>

\* _create_default_tables, lines 162-173: CREATE TABLE IF NOT EXISTS accounts
CreateAccountsTable ==
    /\ pc = "create_accounts"
    /\ schema' = schema \cup {"accounts"}
    /\ pc' = "check_version"
    /\ k' = 1
    /\ OpenFrame
    /\ OpenContinues
    /\ UNCHANGED <<version, accounts>>

\* _check_table_version, lines 134-148, called at line 174 and again at
\* line 117
CheckTableVersion ==
    /\ pc = "check_version"
    /\ OpenFrame
    /\ UNCHANGED <<schema, accounts>>
    /\ IF version # <<>> /\ version[1] # DB_VERSION
       THEN /\ Returns(Call("open", <<>>, "", ""), "OutdatedDbVersionError")
            /\ UNCHANGED version
       ELSE /\ version' = IF version = <<>> THEN <<DB_VERSION>> ELSE version
            /\ IF k = 1
               THEN /\ k' = 2
                    /\ pc' = pc
               ELSE /\ k' = 0
                    /\ pc' = "account_table"
            /\ OpenContinues

\* create_account_table, lines 185-193: the tables of a registered calendar
\* are taken to exist
Registered_Never(rows) == FALSE

\* SELECT count(*) FROM accounts WHERE account = ? AND resource = ? is not 0
Registered(rows) == \E row \in rows : row.account = calendar /\ row.resource = ""

CountAccount ==
    /\ pc = "account_table"
    /\ OpenFrame
    /\ UNCHANGED <<schema, version, accounts>>
    /\ IF Registered(accounts)
       THEN Returns(Call("open", <<>>, "", ""), "ok")
       ELSE /\ pc' = "create_tables"
            /\ k' = 1
            /\ OpenContinues

\* create_account_table, lines 194-212: one CREATE TABLE IF NOT EXISTS,
\* committed by sql_ex
CreateCalendarTable ==
    /\ pc = "create_tables"
    /\ schema' = schema \cup {DeleteTables[k]}
    /\ IF k < Len(DeleteTables)
       THEN /\ k' = k + 1
            /\ pc' = pc
       ELSE /\ k' = 0
            /\ pc' = "insert_account"
    /\ OpenFrame
    /\ OpenContinues
    /\ UNCHANGED <<version, accounts>>

\* create_account_table, lines 213-215: the calendar is registered; account
\* is UNIQUE
InsertAccount ==
    /\ pc = "insert_account"
    /\ OpenFrame
    /\ UNCHANGED <<schema, version>>
    /\ IF \E row \in accounts : row.account = calendar
       THEN /\ Returns(Call("open", <<>>, "", ""), "IntegrityError")
            /\ UNCHANGED accounts
       ELSE /\ accounts' = accounts \cup {[account |-> calendar, resource |-> ""]}
            /\ Returns(Call("open", <<>>, "", ""), "ok")

\* the process is ended while __init__ runs: every statement run so far is
\* committed (lines 160, 173, 142, 181), the next one is never run
OpenCut ==
    /\ pc \in {"open", "create_accounts", "check_version", "account_table",
               "create_tables", "insert_account"}
    /\ Returns(Call("open_cut", <<>>, "", ""), "")
    /\ OpenFrame
    /\ UNCHANGED <<schema, version, accounts>>

\* the same calendar of the same store file is opened once more
Reopen ==
    /\ pc = "idle"
    /\ nops < MaxReopens
    /\ nops' = nops + 1
    /\ pc' = "open"
    /\ pre' = Snapshot
    /\ OpenContinues
    /\ UNCHANGED <<db, disk, accounts, schema, version, k, again, nupdates, nfails>>

OpenNext ==
    \/ CreateVersionTable
    \/ CreateAccountsTable
    \/ CheckTableVersion
    \/ CountAccount
    \/ CreateCalendarTable
    \/ InsertAccount
    \/ OpenCut
    \/ Reopen

OpenSpec == OpenInit /\ [][OpenNext]_vars

\* ------------------------------------------------- expanding a definition
\* aux.expand applied to one definition, drawn from the definitions below.
\* A definition has one of five starts; its end is a DTEND or a DURATION, one
\* hour for a timed start and one day for a date.
Starts ==
    {[dt |-> Aware(201, Berlin), tzid |-> Some("Europe/Berlin")],
     [dt |-> Aware(199, UTC), tzid |-> Absent],
     [dt |-> Naive(201), tzid |-> Absent],
     [dt |-> Naive(201), tzid |-> Some("Unknown/Zone")],
     [dt |-> Date(8), tzid |-> Absent]}

Length(start) == IF start.kind = "date" THEN DAY ELSE 1

\* the value of UNTIL for a start: in UTC when the start has a timezone
Until(start, dur) ==
    IF start.kind = "aware" THEN AsTimezone(DtAdd(start, dur), UTC) ELSE DtAdd(start, dur)

\* the rules: none; COUNT 1, 2 and 3, daily; UNTIL two days on, daily; every
\* 1825 days (a third of the 15 years) with no COUNT and no UNTIL; COUNT 2,
\* every 6000 days; UNTIL 6000 days on, every 6000 days; UNTIL before the
\* start
Rules(start) ==
    {Absent,
     Some(Daily(Some(1), Absent)),
     Some(Daily(Some(2), Absent)),
     Some(Daily(Some(3), Absent)),
     Some(Daily(Absent, Some(Until(start, 2 * DAY)))),
     Some([Daily(Absent, Absent) EXCEPT !.INTERVAL = 1825]),
     Some([Daily(Some(2), Absent) EXCEPT !.INTERVAL = 6000]),
     Some([Daily(Absent, Some(Until(start, 6000 * DAY))) EXCEPT !.INTERVAL = 6000]),
     Some(Daily(Absent, Some(Until(start, 0 - 5 * DAY))))}

\* RDATE: none, the day after the start (as it is, and in UTC), ten days
\* after the start
Rdates(start) ==
    {Absent, Some(<<DtAdd(start, DAY)>>), Some(<<Until(start, DAY)>>),
     Some(<<DtAdd(start, 10 * DAY)>>)}

\* EXDATE: none, the start, the day after the start (as it is, and in UTC),
\* twenty days after the start
Exdates(start) ==
    {Absent, Some(<<start>>), Some(<<DtAdd(start, DAY)>>),
     Some(<<Until(start, DAY)>>), Some(<<DtAdd(start, 20 * DAY)>>)}

Definitions ==
    {[name |-> "VEVENT", DTSTART |-> start.dt, TZID |-> start.tzid,
      DTEND |-> IF explicit THEN Absent ELSE Some(DtAdd(start.dt, Length(start.dt))),
      DURATION |-> IF explicit THEN Some(Length(start.dt)) ELSE Absent,
      RRULE |-> rrule, RDATE |-> rdate, EXDATE |-> exdate,
      RECURRENCE_ID |-> Absent] :
        start \in Starts, explicit \in BOOLEAN,
        rrule \in UNION {Rules(st.dt) : st \in Starts},
        rdate \in UNION {Rdates(st.dt) : st \in Starts},
        exdate \in UNION {Exdates(st.dt) : st \in Starts}}

\* the rule, the extra dates and the excluded dates are those of the start
OfOneKind(v) ==
    /\ v.RRULE \in Rules(v.DTSTART)
    /\ v.RDATE \in Rdates(v.DTSTART)
    /\ v.EXDATE \in Exdates(v.DTSTART)

ExpandInit ==
    /\ events \in {<<v>> : v \in {d \in Definitions : OfOneKind(d)}}
    /\ pc = "expand"
    /\ db = EmptyTables
    /\ disk = EmptyTables
    /\ accounts = {}
    /\ call = Call("expand", <<>>, "", "")
    /\ cur = NoCur
    /\ k = 0
    /\ last = NoCall
    /\ again = FALSE
    /\ nops = 0
    /\ nupdates = 0
    /\ nfails = 0
    /\ result = NoResult
    /\ schema = {}
    /\ version = <<>>
    /\ pre = Snapshot

\* expand(vevent, default_tz): the list it returns, or the error it raises
Expand ==
    /\ pc = "expand"
    /\ LET got == expand(events[1], default_tz)
       IN  /\ last' = [call EXCEPT !.out = got.err]
           /\ result' = got.dtstartend
           /\ cur' = [NoCur EXCEPT !.dtstartend = got.dtstartend, !.vevent = got.vevent]
    /\ pc' = "idle"
    /\ call' = NoCall
    /\ UNCHANGED <<db, disk, accounts, events, k, again, pre, nops, nupdates, nfails,
                   schema, version>>

ExpandNext == Expand

ExpandSpec == ExpandInit /\ [][ExpandNext]_vars

\* ------------------------------------------------- sanitizing a definition
\* aux.sanitize applied to a definition, and to what it returned.
MaxSanitize == 2     \* applications of sanitize in a row

\* the starts: a date; naive times, with and without a TZID; times in
\* Europe/Berlin, one of them at 01:00, when it is the day before in UTC; a
\* time in UTC
SanitizeStarts ==
    Starts \cup {[dt |-> Aware(193, Berlin), tzid |-> Some("Europe/Berlin")]}

\* DTEND: none, the start itself, one unit after the start
SanitizeEnds(start) == {Absent, Some(start), Some(DtAdd(start, Length(start)))}

\* DURATION: none, nothing, one unit
SanitizeDurations(start) == {Absent, Some(0), Some(Length(start))}

SanitizeInputs ==
    {[name |-> "VEVENT", DTSTART |-> start.dt, TZID |-> start.tzid,
      DTEND |-> end, DURATION |-> duration, RRULE |-> rrule, RDATE |-> Absent,
      EXDATE |-> Absent, RECURRENCE_ID |-> Absent] :
        start \in SanitizeStarts,
        end \in UNION {SanitizeEnds(st.dt) : st \in SanitizeStarts},
        duration \in {Absent, Some(0), Some(1), Some(DAY)},
        rrule \in {Absent, Some(Daily(Some(2), Absent))}}

SanitizeInit ==
    /\ events \in {<<v>> : v \in {d \in SanitizeInputs :
                                    /\ d.DTEND \in SanitizeEnds(d.DTSTART)
                                    /\ d.DURATION \in SanitizeDurations(d.DTSTART)}}
    /\ pc = "sanitize"
    /\ db = EmptyTables
    /\ disk = EmptyTables
    /\ accounts = {}
    /\ call = Call("sanitize", <<>>, "", "")
    /\ cur = NoCur
    /\ k = 0
    /\ last = NoCall
    /\ again = FALSE
    /\ nops = 0
    /\ nupdates = 0
    /\ nfails = 0
    /\ result = NoResult
    /\ schema = {}
    /\ version = <<>>
    /\ pre = Snapshot

\* sanitize(vevent): applied to the definition, then to what it returned;
\* result is the list of what the applications returned
Sanitize ==
    /\ pc = "sanitize"
    /\ k < MaxSanitize
    /\ k' = k + 1
    /\ result' = Append(result, sanitize(IF k = 0 THEN events[1] ELSE result[k]))
    /\ last' = [call EXCEPT !.out = "ok"]
    /\ again' = (k > 0)
    /\ UNCHANGED <<db, disk, accounts, pc, call, events, cur, pre, nops, nupdates, nfails,
                   schema, version>>

SanitizeNext == Sanitize

SanitizeSpec == SanitizeInit /\ [][SanitizeNext]_vars

\* ============================================================== the claims
Idle == pc = "idle"
Returned(op, out) == Idle /\ last.op = op /\ last.out = out

IndexRows(tables) == DOMAIN tables.dt \cup DOMAIN tables.d

\* a handle that names something: neither None nor the empty string
Addressable(href) == href # NoneHref /\ href # <<>>

\* what _update_one computes of one component written under href
RecuidOf(component, href) ==
    IF Has(sanitize(component).RECURRENCE_ID)
    THEN href \o Str(to_unix_time(Val(sanitize(component).RECURRENCE_ID)))
    ELSE href
AllDayOf(component) == ~IsDatetime(sanitize(component).DTSTART)
OccurrencesOf(component) == expand(sanitize(component), default_tz).dtstartend

\* the index rows one component stands for, each once
ExpectedRows(component, href) ==
    SetToBag({[dtstart |-> DbTime(AllDayOf(component), OccurrencesOf(component)[i][1]),
               dtend |-> DbTime(AllDayOf(component), OccurrencesOf(component)[i][2]),
               href |-> href,
               recuid |-> RecuidOf(component, href)] :
              i \in 1..Len(OccurrencesOf(component))})

RowsNotOfHref(bag, href) ==
    [row \in {r \in DOMAIN bag : r.href # href} |-> bag[row]]

\* C1: an update that repeats the update before it, bytes, handle and etag,
\* leaves the store as the first left it, with no row of an index table
\* stored twice.
C1_UpdateTwiceIsUpdateOnce ==
    (Returned("update", "ok") /\ Addressable(last.href) /\ again /\ nfails = 0) =>
        /\ db = pre.db
        /\ \A row \in IndexRows(db) :
              row.href = last.href =>
                  CopiesIn(row, db.dt) + CopiesIn(row, db.d) = 1

\* C2: after an update of a handle, the index rows stored under each
\* OccurrenceId of the record are the occurrences of the component just
\* written and no others: none is left of what was stored for it before.
C2_UpdateOverwrites ==
    (Returned("update", "ok") /\ Addressable(last.href) /\ nfails = 0) =>
        \A i \in 1..Len(Walk(last.rec)) :
            LET component == Walk(last.rec)[i]
                recuid == RecuidOf(component, last.href)
            IN  {row \in IndexRows(db) : row.recuid = recuid}
                    = DOMAIN ExpectedRows(component, last.href)

\* C3: while an update call runs, nothing it wrote is committed: its writes
\* become durable all at once, when it returns.
C3_UpdateCommitsOnce ==
    (call.op = "update" /\ Addressable(call.href) /\ ~Idle /\ nfails = 0)
        => disk = pre.disk

\* C4: an update that a failing statement ends leaves the committed store as
\* it was when the call began, and a get that follows it commits nothing of
\* what the failed call wrote.
C4_FailedUpdateRolledBack ==
    [][/\ (Idle' /\ last'.op = "update" /\ last'.out = "StorageError"
             /\ Addressable(last'.href))
            => disk' = pre'.disk
       /\ (Returned("update", "StorageError") /\ Addressable(last.href)
             /\ Idle' /\ last'.op = "get")
            => disk' = pre.disk]_vars

\* C5: while a delete call runs, the committed store never holds index rows
\* of the handle whose master rows are already gone.
C5_DeleteCommitsOnce ==
    (call.op = "delete" /\ Addressable(call.href) /\ ~Idle /\ nfails = 0) =>
        ~ /\ \E row \in pre.disk.m : row.href = call.href
          /\ ~ \E row \in disk.m : row.href = call.href
          /\ \E row \in IndexRows(disk) : row.href = call.href

\* the OccurrenceIds under which a handle has rows in the tables
RecuidsOfHref(tables, href) ==
    {row.recuid : row \in {r \in tables.m \cup IndexRows(tables) : r.href = href}}

\* C6: after delete(handle) no row of the three tables has the handle as its
\* href, and get fails for every OccurrenceId the handle had rows under.
C6_DeleteLeavesNothing ==
    (Returned("delete", "ok") /\ Addressable(last.href) /\ nfails = 0) =>
        /\ \A row \in db.m \cup IndexRows(db) : row.href # last.href
        /\ \A recuid \in RecuidsOfHref(pre.db, last.href) :
              ~ \E row \in db.m : SqlEq(row.recuid, recuid)

\* C7: delete(handle) leaves every row of another href as it was, and all
\* three tables as they were when the handle had no row.
C7_DeleteFrame ==
    Returned("delete", "ok") =>
        /\ {row \in db.m : row.href # last.href}
              = {row \in pre.db.m : row.href # last.href}
        /\ RowsNotOfHref(db.dt, last.href) = RowsNotOfHref(pre.db.dt, last.href)
        /\ RowsNotOfHref(db.d, last.href) = RowsNotOfHref(pre.db.d, last.href)
        /\ RecuidsOfHref(pre.db, last.href) = {} => db = pre.db
        /\ accounts = pre.accounts

\* the handle deleted had rows in all of its tables, and rows of another
\* handle are in the master table and in an index table
C7_Witness ==
    /\ Returned("delete", "ok")
    /\ \E row \in pre.db.m : row.href = last.href
    /\ \E row \in IndexRows(pre.db) : row.href = last.href
    /\ \E row \in db.m : row.href # last.href
    /\ \E row \in IndexRows(db) : row.href # last.href

C9_NoEventNoWrite ==
    (Idle /\ last.op = "update" /\ last.href # NoneHref
        /\ \A i \in 1..Len(from_ical(last.rec)) : from_ical(last.rec)[i].name # "VEVENT")
    => /\ last.out = "UpdateFailed"
       /\ db = pre.db
       /\ disk = pre.disk
       /\ accounts = pre.accounts

\* a record with no VEVENT was refused by a store that holds rows
C9_Witness ==
    /\ Returned("update", "UpdateFailed")
    /\ last.rec = "todo"
    /\ db.m # {}
    /\ db = pre.db

\* C10: an update that UnsupportedRecursion ends leaves the store, as seen
\* and as committed, as it was when the call began.
C10_UnsupportedRecursionNoWrite ==
    (Returned("update", "UnsupportedRecursion") /\ Addressable(last.href)
        /\ nfails = 0) =>
        /\ db = pre.db
        /\ disk = pre.disk

\* C11: get of an OccurrenceId that no master row has raises IndexError;
\* otherwise it returns the event made of the bytes and the etag of the master
\* row that has it; either way the tables are as they were, as seen and, no
\* statement having failed before, as committed.
C11_GetFindsOrFails ==
    (Idle /\ last.op = "get") =>
        /\ ({row \in pre.db.m : row.recuid = last.href} = {})
              => (last.out = "IndexError" /\ result = NoResult)
        /\ \A row \in {r \in pre.db.m : r.recuid = last.href} :
              /\ last.out = "ok"
              /\ result.vevent = row.vevent
              /\ result.etag = row.etag
              /\ result.href = last.href
        /\ db = pre.db
        /\ accounts = pre.accounts
        /\ nfails = 0 => disk = pre.disk

\* get found one of two master rows
C11_Witness ==
    /\ Returned("get", "ok")
    /\ Cardinality(db.m) = 2
    /\ result.etag = "e2"

\* C12: a get that follows an update of a record, for the OccurrenceId of one
\* of its components, returns an event with the etag given to the update and
\* with the definition of that component as it was given (sanitized, and
\* otherwise unaltered: same start and timezone, same end, same rule and
\* dates).
C12_RoundTrip ==
    [][(Returned("update", "ok") /\ Addressable(last.href) /\ Idle' /\ last'.op = "get") =>
          \A i \in 1..Len(Walk(last.rec)) :
              last'.href = RecuidOf(Walk(last.rec)[i], last.href)
              => /\ last'.out = "ok"
                 /\ result'.etag = last.etag
                 /\ result'.vevent = to_ical(sanitize(Walk(last.rec)[i]))]_vars

\* the rows of the timed index that overlap the range of the last call, as
\* C13 words it: start in the range, or end in the range, or the row
\* strictly spanning the range
RowsInRange(bag, call_) ==
    LET start == Mktime(Val(call_.start), call_.tz)
        end == Mktime(Val(call_.end), call_.tz)
    IN  [row \in {r \in DOMAIN bag :
                    \/ start <= r.dtstart /\ r.dtstart <= end
                    \/ start <= r.dtend /\ r.dtend <= end
                    \/ r.dtstart < start /\ end < r.dtend} |-> bag[row]]

\* the event get_time_range returns for a row of the timed index
IsEventOfTimedRow(event, row) ==
    /\ event.href = row.recuid
    /\ event.start = Some(Aware(row.dtstart, UTC))
    /\ event.end = Some(Aware(row.dtend, UTC))

\* C13: get_time_range(start, end) returns one event for each row of the
\* timed index whose interval overlaps [start, end], and no other event.
C13_TimeRangeOverlap ==
    (Idle /\ last.op = "get_time_range") =>
        /\ last.out = "ok"
        /\ BagCardinality(result) = BagCardinality(RowsInRange(pre.db.dt, last))
        /\ \A row \in DOMAIN RowsInRange(pre.db.dt, last) :
              \E event \in DOMAIN result : IsEventOfTimedRow(event, row)
        /\ \A event \in DOMAIN result :
              \E row \in DOMAIN RowsInRange(pre.db.dt, last) : IsEventOfTimedRow(event, row)

\* the events of the last get_allday_range that stand for a row of the
\* all-day index
IsEventOfAlldayRow(event, row) ==
    /\ event.href = row.recuid
    /\ event.start = Some(Strptime(row.dtstart))
    /\ event.end = Some(Strptime(row.dtend))

\* C14: get_allday_range(start, end), end being start + 1 day when not
\* given, returns an all-day row (s, e) with s < e if and only if s < end and
\* e > start, once for each time it is stored.
C14_AlldayRangeExclusiveEnd ==
    (Idle /\ last.op = "get_allday_range") =>
        LET start == Strftime(Val(last.start))
            end == IF Has(last.end) THEN Strftime(Val(last.end))
                   ELSE Strftime(Date(Val(last.start).t + 1))
        IN  /\ last.out = "ok"
            /\ \A row \in DOMAIN pre.db.d :
                  row.dtstart < row.dtend =>
                      IF row.dtstart < end /\ row.dtend > start
                      THEN \E event \in DOMAIN result :
                              /\ IsEventOfAlldayRow(event, row)
                              /\ result[event] = Copies(pre.db.d,
                                    {r \in DOMAIN pre.db.d : IsEventOfAlldayRow(event, r)})
                      ELSE ~ \E event \in DOMAIN result : IsEventOfAlldayRow(event, row)

\* C15: opening a store whose version marker is not the current one raises
\* OutdatedDbVersionError and leaves the store as it was: no table created,
\* no row changed; opening a store with no version marker leaves it with the
\* current version, once.
C15_OutdatedStoreUntouched ==
    (Idle /\ last.op = "open") =>
        /\ (pre.version # <<>> /\ pre.version[1] # DB_VERSION)
              => /\ last.out = "OutdatedDbVersionError"
                 /\ schema = pre.schema
                 /\ version = pre.version
                 /\ accounts = pre.accounts
                 /\ db = pre.db
        /\ pre.version = <<>> => version = <<DB_VERSION>>

\* ------------------------------------------------------------------ expand
\* expand has returned (or raised) on the definition v
Expanded(v) == Idle /\ last.op = "expand" /\ events = <<v>>

\* the start of v in its frame: a naive start with a TZID is in default_tz
StartOf(v) ==
    IF v.DTSTART.kind = "naive" /\ Has(v.TZID)
    THEN Aware(v.DTSTART.t, default_tz)
    ELSE v.DTSTART

\* the length of v in units of its start (hours, or days for a date): the
\* explicit DURATION, or DTEND minus DTSTART (both of one kind and zone)
SpanOf(v) ==
    IF Has(v.DURATION)
    THEN (IF v.DTSTART.kind = "date" THEN Val(v.DURATION) \div DAY ELSE Val(v.DURATION))
    ELSE Val(v.DTEND).t - v.DTSTART.t

IntervalAt(x, v) == <<x, [x EXCEPT !.t = x.t + SpanOf(v)]>>

InFrameOf(x, a) == IF x.kind = "aware" THEN (x.t - x.tz) + a.tz ELSE x.t

\* the first n instants of the rule of v, in the frame and unit of its start
RuleInstants(v, n) ==
    {[StartOf(v) EXCEPT !.t = StartOf(v).t + i * Val(v.RRULE).INTERVAL
                                  * (IF v.DTSTART.kind = "date" THEN 1 ELSE DAY)] :
        i \in 0..(n - 1)}

\* an excluded date of v equals one of the instants S
ExcludesOneOf(v, S) ==
    /\ Has(v.EXDATE)
    /\ \E i \in 1..Len(Val(v.EXDATE)), a \in S : InFrameOf(Val(v.EXDATE)[i], a) = a.t

StrictlyIncreasing(l) == \A i \in 1..(Len(l) - 1) : l[i][1].t < l[i + 1][1].t

\* C17, as stated: a recurring definition whose rule has COUNT=N and whose
\* excluded dates match none of the produced instants expands to exactly N
\* intervals whose starts are strictly increasing.  It fails on a definition
\* that also has an extra date (RDATE) outside the instants of the rule.
C17_CountIntervals ==
    \A v \in Definitions :
        (/\ Expanded(v)
         /\ Has(v.RRULE)
         /\ Has(Val(v.RRULE).COUNT)
         /\ ~ExcludesOneOf(v, RuleInstants(v, Val(Val(v.RRULE).COUNT))))
        => /\ last.out = ""
           /\ Len(result) = Val(Val(v.RRULE).COUNT)
           /\ StrictlyIncreasing(result)

\* C17, amended: a recurring definition whose rule has COUNT=N, which has no
\* extra dates (RDATE) and whose excluded dates match none of the produced
\* instants expands to exactly N intervals, those of the N instants of the
\* rule, whose starts are strictly increasing.
C17_CountIntervalsNoRdate ==
    \A v \in Definitions :
        (/\ Expanded(v)
         /\ Has(v.RRULE)
         /\ Has(Val(v.RRULE).COUNT)
         /\ ~Has(v.RDATE)
         /\ ~ExcludesOneOf(v, RuleInstants(v, Val(Val(v.RRULE).COUNT))))
        => /\ last.out = ""
           /\ Len(result) = Val(Val(v.RRULE).COUNT)
           /\ StrictlyIncreasing(result)
           /\ SeqRange(result)
                = {IntervalAt(a, v) : a \in RuleInstants(v, Val(Val(v.RRULE).COUNT))}

\* a rule with COUNT=3 on a start in a timezone, with an excluded date twenty
\* days on, has expanded to three intervals
C17_Witness ==
    /\ Idle /\ last.op = "expand" /\ last.out = ""
    /\ Has(events[1].RRULE) /\ Val(events[1].RRULE).COUNT = Some(3)
    /\ events[1].DTSTART.kind = "aware" /\ events[1].DTSTART.tz = Berlin
    /\ ~Has(events[1].RDATE)
    /\ events[1].EXDATE = Some(<<DtAdd(events[1].DTSTART, 20 * DAY)>>)
    /\ Len(result) = 3

\* the intervals of l whose start is the excluded date x, read in its frame
ExcludedBy(x, l) == {i \in 1..Len(l) : InFrameOf(x, l[i][1]) = l[i][1].t}

\* C18: exclusion in expand, for timed and for all-day definitions alike.
\* Take a recurring definition (a rule or extra dates) with one excluded date
\* and the same definition without it: when the excluded date equals none of
\* the starts produced without it the result is the same, and when it equals
\* one of them (both read in the same frame) exactly that interval is gone.
C18_ExclusionRemovesOne ==
    \A v \in Definitions :
        (/\ Expanded(v)
         /\ last.out = ""
         /\ Has(v.RRULE) \/ Has(v.RDATE)
         /\ Has(v.EXDATE)
         /\ expand([v EXCEPT !.EXDATE = Absent], default_tz).err = "")
        => LET without == expand([v EXCEPT !.EXDATE = Absent], default_tz).dtstartend
               gone == ExcludedBy(Val(v.EXDATE)[1], without)
           IN  /\ gone = {} => result = without
               /\ gone # {} =>
                    /\ Cardinality(gone) = 1
                    /\ Len(result) = Len(without) - 1
                    /\ SeqRange(result) = SeqRange(without) \ {without[i] : i \in gone}

\* C19: expand never returns an empty list: for every definition, whatever
\* its rule, extra dates and excluded dates, it returns at least one
\* interval or it raises UnsupportedRecursion.
C19_NeverEmpty ==
    (Idle /\ last.op = "expand") =>
        \/ last.out = "" /\ Len(result) >= 1
        \/ last.out = "UnsupportedRecursion"

\* the instant a of v lies within the UNTIL of its rule, if it has one
WithinUntil(v, a) ==
    Has(Val(v.RRULE).UNTIL) => a.t <= InFrameOf(Val(Val(v.RRULE).UNTIL), a)

\* the instants a rule with COUNT or UNTIL asks for, among its first four
AskedInstants(v) ==
    {a \in RuleInstants(v, IF Has(Val(v.RRULE).COUNT) THEN Val(Val(v.RRULE).COUNT) ELSE 4) :
        WithinUntil(v, a)}

C21_OneIndexTablePerOccurrenceId ==
    (Idle /\ nfails = 0) =>
        \A timed \in DOMAIN db.dt, allday \in DOMAIN db.d :
            Addressable(timed.href) => ~SqlEq(timed.recuid, allday.recuid)

\* C22: every row of either index table has its start before its end: a
\* definition whose end equals or precedes its start is refused by update
\* and leaves no index row.
C22_StartBeforeEnd ==
    (Idle /\ nfails = 0) =>
        \A row \in IndexRows(disk) : Addressable(row.href) => row.dtstart < row.dtend

\* the pairs of a listing that carry the handle
PairsOf(listing, href) == {pair \in listing : pair[1] = href}

\* C23: list() called after an update of a handle returns one pair for that
\* handle, with the etag of that update, and get_etag(handle) returns the
\* same etag; after a delete of the handle list() has no pair for it and
\* get_etag returns None.  This holds also when the update has fewer override
\* components than an earlier one.
C23_ListAndEtagAreCurrent ==
    [][/\ (Returned("update", "ok") /\ Addressable(last.href) /\ nfails = 0
             /\ Idle' /\ last'.op = "list")
            => PairsOf(result', last.href) = {<<last.href, last.etag>>}
       /\ (Returned("update", "ok") /\ Addressable(last.href) /\ nfails = 0
             /\ Idle' /\ last'.op = "get_etag" /\ last'.href = last.href)
            => result' = Some(last.etag)
       /\ (Returned("delete", "ok") /\ Addressable(last.href) /\ nfails = 0
             /\ Idle' /\ last'.op = "list")
            => PairsOf(result', last.href) = {}
       /\ (Returned("delete", "ok") /\ Addressable(last.href) /\ nfails = 0
             /\ Idle' /\ last'.op = "get_etag" /\ last'.href = last.href)
            => result' = Absent]_vars

\* ------------------------------------------------- the tables of a calendar
\* a store file as opens of it, finished or cut short, can leave it: a
\* calendar that is registered has its three tables
LeftByOpens(store) == Registered(store.accounts) => CalendarTables \subseteq store.schema

\* C24: creating the tables of a calendar is idempotent.  An open of a store
\* of the current version, be it the first, a repeated one or one after an
\* open that was cut short between the creation of the tables and the
\* registration, ends with one row of the calendar in the registry, the
\* three tables present and every stored master and index row as it was.
C24_OpenIsIdempotent ==
    (/\ Returned("open", "ok") \/ Returned("open", "IntegrityError")
     /\ LeftByOpens(pre))
    => /\ last.out = "ok"
       /\ Cardinality({row \in accounts : row.account = calendar}) = 1
       /\ CalendarTables \subseteq schema
       /\ db = pre.db
       /\ disk = pre.disk
       /\ pre.accounts \subseteq accounts

\* a third open, after one that was cut short with the three tables created
\* and the calendar not yet registered, has registered it, the rows kept
C24_Witness ==
    /\ Returned("open", "ok")
    /\ nops = 2
    /\ CalendarTables \subseteq pre.schema
    /\ ~Registered(pre.accounts)
    /\ Registered(accounts)
    /\ db = StoredTables

\* ------------------------------------------------- the list expand returns
\* an extra date of v is one of the instants S
AddsOneOf(v, S) ==
    /\ Has(v.RDATE)
    /\ \E i \in 1..Len(Val(v.RDATE)), a \in S : InFrameOf(Val(v.RDATE)[i], a) = a.t

\* C25: the list expand returns has strictly increasing, hence pairwise
\* distinct, starts, whatever the rule, the extra dates and the excluded
\* dates; an extra date that is the instant of one produced by the rule,
\* written in another timezone or not, adds no interval; and the end of
\* every interval is its start plus the one duration of the definition.
C25_SortedDistinctOneDuration ==
    \A v \in Definitions :
        (Expanded(v) /\ last.out = "") =>
            /\ StrictlyIncreasing(result)
            /\ \A i, j \in 1..Len(result) : i # j => result[i][1] # result[j][1]
            /\ \A i \in 1..Len(result) : result[i] = IntervalAt(result[i][1], v)
            /\ (/\ Has(v.RRULE)
                /\ Has(Val(v.RRULE).COUNT)
                /\ AddsOneOf(v, RuleInstants(v, Val(Val(v.RRULE).COUNT)))
                /\ ~Has(v.EXDATE))
               => Len(result) = Val(Val(v.RRULE).COUNT)

\* a rule with COUNT=2 on a start in Europe/Berlin, with the second instant
\* given once more as an extra date in UTC, has expanded to two intervals
C25_Witness ==
    /\ Idle /\ last.op = "expand" /\ last.out = ""
    /\ events[1].DTSTART.kind = "aware" /\ events[1].DTSTART.tz = Berlin
    /\ Has(events[1].RRULE) /\ Val(events[1].RRULE).COUNT = Some(2)
    /\ Has(events[1].RDATE)
    /\ Val(events[1].RDATE)[1] = AsTimezone(DtAdd(events[1].DTSTART, DAY), UTC)
    /\ ~Has(events[1].EXDATE)
    /\ Len(result) = 2

\* ---------------------------------------------------------------- sanitize
\* the day of a start: of a time, the day on its own clock
DayOf(x) == IF x.kind = "date" THEN x.t ELSE x.t \div DAY

\* C26: what sanitize returns always has an end or a duration.  A
\* definition with neither gets its start made a date and an end one day
\* after it, nothing else of it changed; a definition that has an end or a
\* duration is returned as it is; and sanitize applied to what it returned
\* returns the same again.
C26_SanitizeGivesAnEnd ==
    \A v \in SanitizeInputs :
        (last.op = "sanitize" /\ events = <<v>> /\ Len(result) >= 1) =>
            /\ Has(result[1].DTEND) \/ Has(result[1].DURATION)
            /\ IF ~Has(v.DTEND) /\ ~Has(v.DURATION)
               THEN result[1] = [v EXCEPT !.DTSTART = Date(DayOf(v.DTSTART)),
                                          !.DTEND = Some(Date(DayOf(v.DTSTART) + 1))]
               ELSE result[1] = v
            /\ \A i \in 2..Len(result) : result[i] = result[1]

\* a time in Europe/Berlin with no end and no duration has been sanitized
\* to one whole day, and sanitized once more
C26_Witness ==
    /\ last.op = "sanitize"
    /\ Len(result) = 2
    /\ events[1].DTSTART = Aware(193, Berlin)
    /\ ~Has(events[1].DTEND) /\ ~Has(events[1].DURATION)
    /\ result[2].DTSTART = Date(8)
    /\ result[2].DTEND = Some(Date(9))

\* ------------------------------------------------------ the frame of update
\* C27: update(bytes, handle, etag) adds, changes or removes rows of that
\* handle only: every master and index row whose href is another handle is
\* as it was, also when the other handle is the handle followed by the epoch
\* time of one of its overrides.
C27_UpdateFrame ==
    (Returned("update", "ok") /\ Addressable(last.href) /\ nfails = 0) =>
        /\ {row \in db.m : row.href # last.href}
              = {row \in pre.db.m : row.href # last.href}
        /\ RowsNotOfHref(db.dt, last.href) = RowsNotOfHref(pre.db.dt, last.href)
        /\ RowsNotOfHref(db.d, last.href) = RowsNotOfHref(pre.db.d, last.href)

\* ---------------------------------------------------------------- hydration
\* C28: in every state that completed update and delete calls lead to, every
\* row of the timed and of the all-day index table has an OccurrenceId for
\* which a master row exists, so that a range query finds the definition of
\* every row it matches.
C28_IndexRowsHaveMaster ==
    (Idle /\ nfails = 0) =>
        \A row \in IndexRows(db) :
            Addressable(row.href) => \E master \in db.m : SqlEq(master.recuid, row.recuid)

====
